---- MODULE Spec2Model ----
(***************************************************************************)
(* Model of ClockFake (src/timer.go): a fake one-shot timer and clock.     *)
(*                                                                         *)
(* Instants and durations are integers (nanoseconds).  Every critical      *)
(* section of the source is one action, enabled when the mutex mu is free. *)
(* Send has two critical sections with a blocking                          *)
(* send on the unbuffered TimeCh in between, so one Send call is four      *)
(* steps: SendBegin (first critical section), SendChan (the goroutine      *)
(* reaches the channel send and parks in the channel's FIFO send queue),   *)
(* a receive by somebody else (RecvC, or the non-blocking receive inside   *)
(* Reset), and SendEnd (second critical section and return).               *)
(*                                                                         *)
(* Variables below the line "history variables" record what calls were     *)
(* made and what they returned; no action reads them in a guard or to      *)
(* compute program state, except nCalls, which only caps the number of     *)
(* calls made in one run (MaxCalls).                                       *)
(***************************************************************************)
EXTENDS Integers, Sequences, FiniteSets, TLC

\* ---- bounds of the model ----
MaxCalls == 4         \* at most this many Reset, Stop, SetNow and Send calls in all;
                      \* the Send calls may all overlap

\* ---- inputs ----
Durations == {-2, 0, 3}     \* arguments of Reset
Instants == {0, 4}          \* arguments of SetNow
StartInstants == {1}        \* arguments of NewClockFake

\* next.Add(1): the step by which Send moves current past the sent instant
Tick == 1

Calls == 1..MaxCalls

\* *time.Duration: nil, or a pointer to a private copy of d
Nil == <<>>
Ptr(d) == <<d>>
Deref(p) == p[1]

VARIABLES
  current,      \* c.current
  resetArg,     \* c.resetArg
  ResetCh,      \* buffered channel, capacity 1
  StopCh,       \* buffered channel, capacity 1
  TimeCh,       \* unbuffered channel: FIFO queue of the Send calls parked on it
  sending,      \* c.sending
  scheduled,    \* c.scheduled
  pc,           \* position of each Send call
  next,         \* local variable next of each Send call
  prev,         \* local (result) variable prev of each Send call
  \* ---- history variables ----
  lastOp,       \* the operation that took the latest step
  callLog,      \* the Reset(d) and Stop() calls made, in call order
  lastResetCall,\* Ptr(d) of the most recent Reset(d) call, Nil if none
  sinceReset,   \* "never" | "fresh" | "followed": what followed the latest Reset
  stopRet,      \* result of the latest Stop call
  stopWant,     \* just before the latest Stop call: the latest Reset call was
                \* followed by no Stop call and by no completed Send
  sendRet,      \* result of each returned Send call
  nowAtBegin,   \* what Now() returned immediately before each Send took effect
  expect,       \* nowAtBegin + duration of the most recent Reset call then
  got,          \* the value taken from TimeCh for each Send call
  recvBy,       \* who took it: "none" | "consumer" | "Reset"
  recvLog,      \* Send calls in the order their values were taken from TimeCh
  setNowAfter,  \* per Send call: a SetNow ran after its value was received
  clean,        \* per Send call: since it began, no SetNow ran and no Send
                \* with a negative duration began
  nCalls,       \* number of Reset, Stop, SetNow and Send calls made
  \* ---- the mutex embedded in ClockFake ----
  mu,           \* 0 when unlocked, else the Send call that holds it
  \* ---- a NowerFake, an object of its own ----
  nowerCurrent, \* n.current
  \* ---- more history variables ----
  setNowRet,    \* result of the latest ClockFake.SetNow call
  nowerRet,     \* result of the latest NowerFake.SetNow call
  everSetNow,   \* ClockFake.SetNow was called at least once
  afterReset,   \* per Send call: it began after the latest Reset call
  resetInFlight,\* the latest Reset call ran while a Send call was blocked
  armWant,      \* a Reset call was made and since the latest one there was no
                \* Stop call and no completion of a Send that began after it
  atReset       \* per Send call: "none", or where the call was when a Reset
                \* ran after it began and before its value was received:
                \* "head" (parked first in TimeCh) or "other"

\* the ClockFake, the positions of its Send calls and their history
vars1 == <<current, resetArg, ResetCh, StopCh, TimeCh, sending, scheduled,
          pc, next, prev, lastOp, callLog, lastResetCall, sinceReset,
          stopRet, stopWant, sendRet, nowAtBegin, expect, got, recvBy,
          recvLog, setNowAfter, clean, nCalls>>

nower == <<nowerCurrent, nowerRet>>

hist2 == <<setNowRet, everSetNow, afterReset, resetInFlight, armWant, atReset>>

vars == <<vars1, mu, nower, hist2>>

prog == <<current, resetArg, ResetCh, StopCh, TimeCh, sending, scheduled,
          pc, next, prev>>

hist == <<callLog, lastResetCall, sinceReset, stopRet, stopWant, sendRet,
          nowAtBegin,
          expect, got, recvBy, recvLog, setNowAfter, clean, nCalls>>

\* history: the duration of the most recent Reset call, 0 if there was none
WantDur == IF lastResetCall = Nil THEN 0 ELSE Deref(lastResetCall)

\* ---- read operations (each a single critical section) ----
Now == current
IsSending == sending
IsScheduled == scheduled
CloneResetArg == [i \in 1..Len(resetArg) |-> resetArg[i]]

\* variant: looks at the last entry only, a Stop entry hides the Reset before it
LastResetScan_NoSkip(arg, i) ==
  IF i > 0 /\ arg[i] # Nil THEN <<Deref(arg[i]), TRUE>> ELSE <<0, FALSE>>

RECURSIVE LastResetScan(_, _)
LastResetScan(arg, i) ==
  IF i > 0
  THEN IF arg[i] # Nil THEN <<Deref(arg[i]), TRUE>>
       ELSE LastResetScan(arg, i - 1)
  ELSE <<0, FALSE>>

LastReset == LastResetScan(resetArg, Len(resetArg))

\* variant: looks at the last entry only
SendLastReset_NoSkip(arg, i) ==
  IF i > 0 /\ arg[i] # Nil THEN Deref(arg[i]) ELSE 0

\* the loop at the head of Send: lastReset stays 0 unless a non-nil entry is found
RECURSIVE SendLastReset(_, _)
SendLastReset(arg, i) ==
  IF i > 0
  THEN IF arg[i] # Nil THEN Deref(arg[i])
       ELSE SendLastReset(arg, i - 1)
  ELSE 0

\* variant: a signal on a full channel replaces the pending one
TrySend_Overwrite(ch, v) == <<v>>

\* select { case ch <- v: default: } on a channel buffered with capacity 1
TrySend(ch, v) == IF Len(ch) < 1 THEN Append(ch, v) ELSE ch

\* ---- NewClockFake ----
Init ==
  /\ current \in StartInstants
  /\ resetArg = <<>>
  /\ ResetCh = <<>>
  /\ StopCh = <<>>
  /\ TimeCh = <<>>
  /\ sending = FALSE
  /\ scheduled = FALSE
  /\ pc = [k \in Calls |-> "notStarted"]
  /\ next = [k \in Calls |-> 0]
  /\ prev = [k \in Calls |-> 0]
  /\ lastOp = "New"
  /\ callLog = <<>>
  /\ lastResetCall = Nil
  /\ sinceReset = "never"
  /\ stopRet = FALSE
  /\ stopWant = FALSE
  /\ sendRet = [k \in Calls |-> 0]
  /\ nowAtBegin = [k \in Calls |-> 0]
  /\ expect = [k \in Calls |-> 0]
  /\ got = [k \in Calls |-> 0]
  /\ recvBy = [k \in Calls |-> "none"]
  /\ recvLog = <<>>
  /\ setNowAfter = [k \in Calls |-> FALSE]
  /\ clean = [k \in Calls |-> TRUE]
  /\ nCalls = 0
  /\ mu = 0
  /\ nowerCurrent = 0
  /\ setNowRet = 0
  /\ nowerRet = 0
  /\ everSetNow = FALSE
  /\ afterReset = [k \in Calls |-> FALSE]
  /\ resetInFlight = FALSE
  /\ armWant = FALSE
  /\ atReset = [k \in Calls |-> "none"]

\* ---- Reset ----
\* arg: the new c.resetArg; drain: the receive from c.TimeCh finds a value;
\* ch: the new ResetCh
ResetLocked(d, arg, drain, ch) ==
  /\ mu = 0
  /\ nCalls < MaxCalls
  /\ nCalls' = nCalls + 1
  /\ resetArg' = arg
  /\ scheduled' = TRUE
  /\ IF drain
     THEN \* case <-c.TimeCh: the first parked Send hands its value over
          /\ TimeCh' = Tail(TimeCh)
          /\ pc' = [pc EXCEPT ![Head(TimeCh)] = "handed"]
          /\ got' = [got EXCEPT ![Head(TimeCh)] = next[Head(TimeCh)]]
          /\ recvBy' = [recvBy EXCEPT ![Head(TimeCh)] = "Reset"]
          /\ recvLog' = Append(recvLog, Head(TimeCh))
     ELSE \* default:
          UNCHANGED <<TimeCh, pc, got, recvBy, recvLog>>
  /\ ResetCh' = ch
  /\ lastOp' = "Reset"
  /\ callLog' = Append(callLog, [op |-> "Reset", d |-> d])
  /\ lastResetCall' = Ptr(d)
  /\ sinceReset' = "fresh"
  /\ afterReset' = [k \in Calls |-> FALSE]
  /\ resetInFlight' = (\E k \in Calls : pc[k] \in {"unlocked", "parked"})
  /\ armWant' = TRUE
  /\ atReset' = [k \in Calls |->
                   IF TimeCh # <<>> /\ k = Head(TimeCh) THEN "head"
                   ELSE IF pc[k] \in {"unlocked", "parked"} THEN "other"
                   ELSE atReset[k]]
  /\ UNCHANGED <<current, StopCh, sending, next, prev, stopRet, stopWant,
                 sendRet, nowAtBegin, expect, setNowAfter, clean>>
  /\ UNCHANGED <<mu, nower, setNowRet, everSetNow>>

\* variant: records the call at the front of resetArg
Reset_Prepend(d) ==
  ResetLocked(d, <<Ptr(d)>> \o resetArg, TimeCh # <<>>, TrySend(ResetCh, d))

\* variant: does not look at c.TimeCh
Reset_NoDrain(d) ==
  ResetLocked(d, Append(resetArg, Ptr(d)), FALSE, TrySend(ResetCh, d))

Reset(d) ==
  ResetLocked(d, Append(resetArg, Ptr(d)), TimeCh # <<>>, TrySend(ResetCh, d))

\* ---- Stop ----
\* arg: the new c.resetArg; ch: the new StopCh; ret: the result
StopLocked(arg, ch, ret) ==
  /\ mu = 0
  /\ nCalls < MaxCalls
  /\ nCalls' = nCalls + 1
  /\ resetArg' = arg
  /\ StopCh' = ch
  /\ stopRet' = ret
  /\ stopWant' = (sinceReset = "fresh")
  /\ scheduled' = FALSE
  /\ lastOp' = "Stop"
  /\ callLog' = Append(callLog, [op |-> "Stop", d |-> 0])
  /\ sinceReset' = IF sinceReset = "fresh" THEN "followed" ELSE sinceReset
  /\ armWant' = FALSE
  /\ UNCHANGED <<current, ResetCh, TimeCh, sending, pc, next, prev,
                 lastResetCall, sendRet, nowAtBegin, expect, got, recvBy,
                 recvLog, setNowAfter, clean>>
  /\ UNCHANGED <<mu, nower, setNowRet, everSetNow, afterReset, resetInFlight,
                 atReset>>

\* variant: returns the flag as it is after the call
Stop_RetAfter ==
  StopLocked(Append(resetArg, Nil), TrySend(StopCh, "sig"), FALSE)

\* variant: records nothing
Stop_NoRecord ==
  StopLocked(resetArg, TrySend(StopCh, "sig"), scheduled)

Stop ==
  StopLocked(Append(resetArg, Nil), TrySend(StopCh, "sig"), scheduled)

\* ---- SetNow ----
\* ret: the result
SetNowLocked(t, ret) ==
  /\ mu = 0
  /\ nCalls < MaxCalls
  /\ current' = t
  /\ setNowRet' = ret
  /\ lastOp' = "SetNow"
  /\ nCalls' = nCalls + 1
  /\ setNowAfter' = [k \in Calls |-> setNowAfter[k] \/ recvBy[k] # "none"]
  /\ clean' = [k \in Calls |-> clean[k] /\ pc[k] = "notStarted"]
  /\ everSetNow' = TRUE
  /\ UNCHANGED <<resetArg, ResetCh, StopCh, TimeCh, sending, scheduled, pc,
                 next, prev, callLog, lastResetCall, sinceReset, stopRet,
                 stopWant, sendRet, nowAtBegin, expect, got, recvBy, recvLog>>
  /\ UNCHANGED <<mu, nower, afterReset, resetInFlight, armWant, atReset>>

\* variant: returns the new instant
SetNow_RetNew(t) == SetNowLocked(t, t)

SetNow(t) == SetNowLocked(t, current)

\* ---- NowerFake.SetNow ----
NowerNow == nowerCurrent

NowerSetNow(t) ==
  /\ nCalls < MaxCalls
  /\ nCalls' = nCalls + 1
  /\ nowerCurrent' = t
  /\ nowerRet' = nowerCurrent
  /\ UNCHANGED <<prog, callLog, lastResetCall, sinceReset, stopRet, stopWant,
                 sendRet, nowAtBegin, expect, got, recvBy, recvLog, setNowAfter,
                 clean, lastOp>>
  /\ UNCHANGED <<mu, hist2>>

\* ---- Send, first critical section ----
\* nxt: next; cur: the new c.current; prv: prev
SendLocked(k, nxt, cur, prv) ==
  /\ mu = 0
  /\ nCalls < MaxCalls
  /\ nCalls' = nCalls + 1
  /\ pc[k] = "notStarted"
  /\ \A j \in Calls : j < k => pc[j] # "notStarted"
  /\ next' = [next EXCEPT ![k] = nxt]
  /\ prev' = [prev EXCEPT ![k] = prv]
  /\ current' = cur
  /\ sending' = TRUE
  /\ pc' = [pc EXCEPT ![k] = "unlocked"]
  /\ lastOp' = "SendBegin"
  /\ nowAtBegin' = [nowAtBegin EXCEPT ![k] = Now]
  /\ expect' = [expect EXCEPT ![k] = Now + WantDur]
  /\ clean' = [j \in Calls |->
                 IF j = k THEN TRUE ELSE clean[j] /\ WantDur >= 0]
  /\ afterReset' = [afterReset EXCEPT ![k] = TRUE]
  /\ UNCHANGED <<resetArg, ResetCh, StopCh, TimeCh, scheduled, callLog,
                 lastResetCall, sinceReset, stopRet, stopWant, sendRet, got,
                 recvBy, recvLog, setNowAfter>>
  /\ UNCHANGED <<nower, setNowRet, everSetNow, resetInFlight, armWant, atReset>>

\* variant: current is set to next, not stepped past it
SendBegin_NoTick(k) ==
  LET lastReset == SendLastReset(resetArg, Len(resetArg))
      nxt == current + lastReset
  IN SendLocked(k, nxt, nxt, current) /\ mu' = 0

\* variant: prev is read after current was moved
SendBegin_RetBumped(k) ==
  LET lastReset == SendLastReset(resetArg, Len(resetArg))
      nxt == current + lastReset
  IN SendLocked(k, nxt, nxt + Tick, nxt + Tick) /\ mu' = 0

\* variant: current is left alone until the value was handed over
SendBegin_NoAdvance(k) ==
  LET lastReset == SendLastReset(resetArg, Len(resetArg))
      nxt == current + lastReset
  IN SendLocked(k, nxt, current, current) /\ mu' = 0

\* variant: the lock is not released before the channel send
SendBegin_HoldLock(k) ==
  LET lastReset == SendLastReset(resetArg, Len(resetArg))
      nxt == current + lastReset
  IN SendLocked(k, nxt, nxt + Tick, current) /\ mu' = k

SendBegin(k) ==
  LET lastReset == SendLastReset(resetArg, Len(resetArg))
      nxt == current + lastReset
  IN SendLocked(k, nxt, nxt + Tick, current) /\ mu' = 0

\* ---- Send, c.TimeCh <- next: park on the unbuffered channel ----
SendChan(k) ==
  /\ pc[k] = "unlocked"
  /\ pc' = [pc EXCEPT ![k] = "parked"]
  /\ TimeCh' = Append(TimeCh, k)
  /\ lastOp' = "SendChan"
  /\ UNCHANGED <<current, resetArg, ResetCh, StopCh, sending, scheduled,
                 next, prev>>
  /\ UNCHANGED <<hist, mu, nower, hist2>>

\* ---- a consumer's <-c.C() ----
RecvC ==
  /\ TimeCh # <<>>
  /\ TimeCh' = Tail(TimeCh)
  /\ pc' = [pc EXCEPT ![Head(TimeCh)] = "handed"]
  /\ got' = [got EXCEPT ![Head(TimeCh)] = next[Head(TimeCh)]]
  /\ recvBy' = [recvBy EXCEPT ![Head(TimeCh)] = "consumer"]
  /\ recvLog' = Append(recvLog, Head(TimeCh))
  /\ lastOp' = "RecvC"
  /\ UNCHANGED <<current, resetArg, ResetCh, StopCh, sending, scheduled,
                 next, prev, callLog, lastResetCall, sinceReset, stopRet,
                 stopWant, sendRet, nowAtBegin, expect, setNowAfter, clean, nCalls>>
  /\ UNCHANGED <<mu, nower, hist2>>

\* ---- Send, second critical section and return ----
\* from: the positions the step may be taken from; sch, snd: the new flags
SendUnlocked(k, from, sch, snd) ==
  /\ mu = 0
  /\ pc[k] \in from
  /\ scheduled' = sch
  /\ sending' = snd
  /\ pc' = [pc EXCEPT ![k] = "returned"]
  /\ sendRet' = [sendRet EXCEPT ![k] = prev[k]]
  /\ lastOp' = "SendEnd"
  /\ sinceReset' = IF sinceReset = "fresh" THEN "followed" ELSE sinceReset
  /\ armWant' = (armWant /\ ~afterReset[k])
  /\ UNCHANGED <<current, resetArg, ResetCh, StopCh, TimeCh, next, prev,
                 callLog, lastResetCall, stopRet, stopWant, nowAtBegin, expect,
                 got, recvBy, recvLog, setNowAfter, clean, nCalls>>
  /\ UNCHANGED <<mu, nower, setNowRet, everSetNow, afterReset, resetInFlight,
                 atReset>>

\* variant: the scheduled flag is left as it is
SendEnd_KeepScheduled(k) == SendUnlocked(k, {"handed"}, scheduled, FALSE)

\* variant: the sending flag is left as it is
SendEnd_KeepSending(k) == SendUnlocked(k, {"handed"}, FALSE, sending)

\* variant: the channel send does not wait for a receiver
SendEnd_NoWait(k) == SendUnlocked(k, {"parked", "handed"}, FALSE, FALSE)

SendEnd(k) == SendUnlocked(k, {"handed"}, FALSE, FALSE)

\* ---- ExhaustCh: one iteration of its loop that finds a channel ready ----
ExhaustCh ==
  /\ \/ /\ ResetCh # <<>>
        /\ ResetCh' = Tail(ResetCh)
        /\ UNCHANGED StopCh
     \/ /\ StopCh # <<>>
        /\ StopCh' = Tail(StopCh)
        /\ UNCHANGED ResetCh
  /\ lastOp' = "ExhaustCh"
  /\ UNCHANGED <<current, resetArg, TimeCh, sending, scheduled, pc, next, prev>>
  /\ UNCHANGED <<hist, mu, nower, hist2>>

Next ==
  \/ \E d \in Durations : Reset(d)
  \/ Stop
  \/ \E t \in Instants : SetNow(t)
  \/ \E k \in Calls : SendBegin(k)
  \/ \E k \in Calls : SendChan(k)
  \/ RecvC
  \/ \E k \in Calls : SendEnd(k)
  \/ ExhaustCh

Spec == Init /\ [][Next]_vars

\* a ClockFake and a NowerFake side by side
NextBoth ==
  \/ Next
  \/ \E t \in Instants : NowerSetNow(t)

SpecBoth == Init /\ [][NextBoth]_vars

\* no consumer ever receives from C()
NextNoConsumer ==
  \/ \E d \in Durations : Reset(d)
  \/ Stop
  \/ \E t \in Instants : SetNow(t)
  \/ \E k \in Calls : SendBegin(k)
  \/ \E k \in Calls : SendChan(k)
  \/ \E k \in Calls : SendEnd(k)
  \/ ExhaustCh

SpecNoConsumer == Init /\ [][NextNoConsumer]_vars

\* the goroutines of the Send calls and a consumer that keeps receiving are
\* scheduled fairly
FairSpec ==
  /\ Spec
  /\ WF_vars(RecvC)
  /\ \A k \in Calls : WF_vars(SendChan(k)) /\ WF_vars(SendEnd(k))

\* ======================= properties =======================

InFlight(k) == pc[k] \in {"unlocked", "parked", "handed"}
Returned == {k \in Calls : pc[k] = "returned"}

\* C1: the instant a Send call puts on TimeCh is the current instant at the
\* moment the call began plus the duration of the most recent Reset call made
\* before that moment (zero if there was none), whatever Reset, Stop or SetNow
\* calls run while the call is blocked.
C1_SendValue ==
  \A k \in Calls :
    /\ pc[k] \in {"unlocked", "parked"} => next[k] = expect[k]
    /\ recvBy[k] # "none" => got[k] = expect[k]

\* C1 witness: Reset(3), Stop, then a Send; a SetNow ran while the Send was
\* waiting, and a consumer then received the instant at which the Send began
\* plus 3.
C1_Witness ==
  /\ recvBy[1] = "consumer"
  /\ callLog = <<[op |-> "Reset", d |-> 3], [op |-> "Stop", d |-> 0]>>
  /\ ~clean[1] /\ ~setNowAfter[1]
  /\ got[1] = nowAtBegin[1] + 3
  /\ got[1] # Now - Tick

C3_StopResult ==
  lastOp = "Stop" => (stopRet = stopWant /\ ~IsScheduled)

\* C3 witness: Reset, a Send that completed, then Stop, which returned false.
C3_Witness ==
  /\ lastOp = "Stop"
  /\ ~stopRet
  /\ Len(callLog) = 2 /\ callLog[1].op = "Reset"
  /\ pc[1] = "returned"

\* C4: CloneResetArg holds one entry per Reset or Stop call, in call order:
\* a pointer to d for Reset(d), nil for Stop; nothing else touches it.
C4_History ==
  /\ Len(CloneResetArg) = Len(callLog)
  /\ \A i \in 1..Len(callLog) :
       CloneResetArg[i] =
         IF callLog[i].op = "Reset" THEN Ptr(callLog[i].d) ELSE Nil

\* C4 witness: Reset, Stop, Reset with a completed Send in between.
C4_Witness ==
  /\ Len(callLog) = 3
  /\ callLog[1].op = "Reset" /\ callLog[2].op = "Stop" /\ callLog[3].op = "Reset"
  /\ callLog[1].d # callLog[3].d
  /\ pc[1] = "returned"

\* C5: LastReset returns (d, true) for the most recent Reset(d) call whatever
\* Stop calls followed it, and (0, false) exactly when Reset was never called.
C5_LastReset ==
  /\ LastReset = IF lastResetCall = Nil THEN <<0, FALSE>>
                 ELSE <<Deref(lastResetCall), TRUE>>
  /\ (LastReset = <<0, FALSE>>) <=>
       (\A i \in 1..Len(callLog) : callLog[i].op # "Reset")

\* C5 witness: Reset(3), Reset(0), Stop: LastReset returns (0, true).
C5_Witness ==
  /\ Len(callLog) = 3
  /\ callLog[1] = [op |-> "Reset", d |-> 3]
  /\ callLog[2] = [op |-> "Reset", d |-> 0]
  /\ callLog[3].op = "Stop"
  /\ LastReset = <<0, TRUE>>

\* C6: a Send call returns what Now() returned immediately before the call
\* took effect, not the instant it moved current to.
C6_SendResult ==
  \A k \in Returned : sendRet[k] = nowAtBegin[k]

\* C6 witness: two Send calls returned, the second an instant other than the
\* first and other than the present one.
C6_Witness ==
  /\ pc[1] = "returned" /\ pc[2] = "returned"
  /\ sendRet[2] # sendRet[1]
  /\ sendRet[2] # Now

\* C7: IsScheduled is true right after Reset, false right after Stop and
\* right after Send returns.
C7_ScheduledAfter ==
  /\ lastOp = "Reset" => IsScheduled
  /\ lastOp \in {"Stop", "SendEnd"} => ~IsScheduled

\* C7 witness: a Send returned after a Reset that was made while it was in
\* flight, and the instance is not scheduled.
C7_Witness ==
  /\ lastOp = "SendEnd"
  /\ Len(callLog) > 0 /\ callLog[Len(callLog)].op = "Reset"
  /\ ~IsScheduled

\* C8: counting every receive from TimeCh (a consumer's, or the one inside
\* Reset), no more Send calls have returned than values were received, every
\* returned Send handed its value over exactly once, and every received value
\* is the value of a distinct Send call that had parked on the channel.
C8_OneValuePerSend ==
  /\ Cardinality(Returned) <= Len(recvLog)
  /\ \A i, j \in 1..Len(recvLog) : i # j => recvLog[i] # recvLog[j]
  /\ \A i \in 1..Len(recvLog) :
       /\ pc[recvLog[i]] \in {"handed", "returned"}
       /\ got[recvLog[i]] = next[recvLog[i]]
  /\ \A k \in Returned : \E i \in 1..Len(recvLog) : recvLog[i] = k

\* C8 witness: two Send calls overlapped, both returned, two values received.
C8_Witness ==
  /\ Cardinality(Returned) = 2
  /\ recvLog = <<1, 2>>
  /\ nowAtBegin[2] = got[1] + Tick
  /\ recvBy[1] = "consumer" /\ recvBy[2] = "consumer"

\* C9 as stated: whenever a Send call is blocked on TimeCh, IsSending is true.
C9_SendingWhileBlocked ==
  (\E k \in Calls : pc[k] = "parked") => IsSending

\* C10: IsSending is true only while some Send call is between its two
\* critical sections, and is false right after a Send call returns.
C10_SendingOnlyInFlight ==
  /\ IsSending => \E k \in Calls : InFlight(k)
  /\ lastOp = "SendEnd" => ~IsSending

\* C10 witness: two Send calls were made, both returned, none is in progress.
C10_Witness ==
  /\ lastOp = "SendEnd"
  /\ Cardinality(Returned) = 2
  /\ \A k \in Calls : ~InFlight(k)
  /\ ~IsSending

\* a Send call that released the lock and has not completed its channel send
Blocked(k) == pc[k] \in {"unlocked", "parked"}

\* C11: while a Send call is blocked on (or about to block on) TimeCh the lock
\* is free, so Reset, Stop and SetNow can run their critical sections and the
\* reads Now, IsSending, IsScheduled, CloneResetArg and LastReset, which only
\* need the lock, can complete; the lock is never held across the channel send.
C11_LockFreeWhileBlocked ==
  (\E k \in Calls : Blocked(k)) =>
    /\ mu = 0
    /\ nCalls < MaxCalls =>
         /\ ENABLED Stop
         /\ \A d \in Durations : ENABLED Reset(d)
         /\ \A t \in Instants : ENABLED SetNow(t)

\* C11 witness: a Stop call completed while a Send call was parked on TimeCh.
C11_Witness ==
  /\ lastOp = "Stop"
  /\ \E k \in Calls : pc[k] = "parked"
  /\ mu = 0

\* C12: SetNow(t), on a ClockFake and on a NowerFake, replaces the current
\* instant by t in one critical section and returns the instant Now() returned
\* before the call; Now() returns t afterwards, also when t is earlier than
\* the previous instant; on a ClockFake it changes neither the recorded
\* history nor the scheduled and sending flags.
C12_SetNow ==
  [][ /\ \A t \in Instants :
           SetNow(t) =>
             /\ setNowRet' = Now
             /\ Now' = t
             /\ CloneResetArg' = CloneResetArg
             /\ IsScheduled' = IsScheduled
             /\ IsSending' = IsSending
      /\ \A t \in Instants :
           NowerSetNow(t) =>
             /\ nowerRet' = NowerNow
             /\ NowerNow' = t ]_vars

\* C12 witness: the last SetNow on the ClockFake moved it back from the start
\* instant to 0 and returned the start instant; the NowerFake was moved
\* forward to 4 and then back to 0, the last call returning 4.
C12_Witness ==
  /\ lastOp = "SetNow"
  /\ Now = 0
  /\ setNowRet \in StartInstants
  /\ NowerNow = 0
  /\ nowerRet = 4

\* the step is a call of op (Reset or Stop), recognised by the call log
IsCall(op) ==
  /\ Len(callLog') = Len(callLog) + 1
  /\ callLog'[Len(callLog')].op = op

\* C13: ResetCh and StopCh never hold more than one pending signal.  A Reset
\* (Stop) call that finds its channel empty leaves exactly one signal there and
\* none on the other channel; one that finds it full still completes, still
\* records its history entry and its flag change, and leaves the pending
\* signal as it was.
C13_Signals ==
  /\ [](Len(ResetCh) <= 1 /\ Len(StopCh) <= 1)
  /\ []((nCalls < MaxCalls /\ mu = 0) =>
          /\ ENABLED Stop
          /\ \A d \in Durations : ENABLED Reset(d))
  /\ [][ /\ IsCall("Reset") =>
              /\ ResetCh' = IF ResetCh = <<>>
                            THEN <<callLog'[Len(callLog')].d>>
                            ELSE ResetCh
              /\ StopCh' = StopCh
              /\ resetArg' = Append(resetArg, Ptr(callLog'[Len(callLog')].d))
              /\ scheduled'
         /\ IsCall("Stop") =>
              /\ StopCh' = IF StopCh = <<>> THEN <<"sig">> ELSE StopCh
              /\ ResetCh' = ResetCh
              /\ resetArg' = Append(resetArg, Nil)
              /\ ~scheduled' ]_vars

\* C13 witness: two Reset calls with different durations and then two Stop
\* calls were made without reading the channels; each channel holds the signal
\* of the first call only, and all four calls are recorded.
C13_Witness ==
  /\ Len(callLog) = 4
  /\ callLog[1].op = "Reset" /\ callLog[2].op = "Reset"
  /\ callLog[3].op = "Stop" /\ callLog[4].op = "Stop"
  /\ callLog[1].d # callLog[2].d
  /\ ResetCh = <<callLog[1].d>>
  /\ StopCh = <<"sig">>
  /\ resetArg = <<Ptr(callLog[1].d), Ptr(callLog[2].d), Nil, Nil>>
  /\ ~scheduled

\* since Send call k began no SetNow was made and no other Send call began
Quiet(k) ==
  /\ ~setNowAfter[k]
  /\ clean[k]
  /\ \A j \in Calls : j > k => pc[j] = "notStarted"

\* C14 as stated: while a Send call is blocked on TimeCh, Now() still returns
\* the instant it returned before the call; current is moved past the
\* delivered value only when the channel send has completed.
C14_NowWhileBlocked ==
  \A k \in Calls : (Blocked(k) /\ Quiet(k)) => Now = nowAtBegin[k]

\* C14 amended: from the first critical section of a Send call on, hence also
\* while the call is blocked on TimeCh, Now() returns the value being
\* delivered plus one tick; the step that clears the flags leaves it there.
C14_NowAdvancedAtBegin ==
  \A k \in Calls :
    (pc[k] # "notStarted" /\ Quiet(k)) =>
      /\ next[k] = expect[k]
      /\ Now = expect[k] + Tick

\* C14 witness: a Send call made after Reset(3) is parked on TimeCh and Now()
\* is already 3 + 1 past the instant at which the call began.
C14_Witness ==
  \E k \in Calls :
    /\ pc[k] = "parked"
    /\ Quiet(k)
    /\ expect[k] = nowAtBegin[k] + 3
    /\ Now = nowAtBegin[k] + 3 + Tick

\* C15 as stated: after a Reset call made while a Send call was blocked,
\* IsScheduled stays true until a later Stop call or the completion of a Send
\* call that began after that Reset; the completion of the delivery that was
\* in flight does not disarm it.
C15_RearmSurvivesInFlight ==
  (resetInFlight /\ armWant) => IsScheduled

\* C16 as stated: once a Reset call has returned, no value of a Send call that
\* was blocked when that Reset ran can be received from C() by a consumer.
C16_ResetDiscardsAll ==
  \A k \in Calls : atReset[k] # "none" => recvBy[k] # "consumer"

\* C16 amended: a Reset call takes the value of exactly the Send call that is
\* first in line on TimeCh when it runs, and of no other; a value is discarded
\* by a Reset only in that way.
C16_ResetDiscardsHead ==
  \A k \in Calls :
    /\ atReset[k] = "head" <=> recvBy[k] = "Reset"
    /\ recvBy[k] = "Reset" => got[k] = next[k] /\ pc[k] \in {"handed", "returned"}

\* C16 witness: two Send calls were parked when Reset ran; Reset took the
\* value of the first in line and a consumer received the other afterwards.
C16_Witness ==
  \E k, j \in Calls :
    /\ atReset[k] = "head" /\ recvBy[k] = "Reset"
    /\ atReset[j] = "other" /\ recvBy[j] = "consumer"
    /\ recvLog = <<k, j>>

\* C17 as stated: with no consumer receiving from C(), a Send call never
\* returns and the sending flag stays true, whatever else is called.
C17_NeverReturns ==
  \A k \in Calls :
    pc[k] # "notStarted" => (pc[k] # "returned" /\ IsSending)

\* C17 amended: with no consumer receiving from C(), as long as no Reset call
\* has taken a value from TimeCh, every Send call that began is still waiting
\* on the channel send and the sending flag is true, whatever Stop, SetNow,
\* ExhaustCh and Reset calls before the Send was parked were made.
C17_BlockedUnlessReset ==
  (\A j \in Calls : recvBy[j] = "none") =>
    \A k \in Calls :
      pc[k] # "notStarted" => (Blocked(k) /\ IsSending)

\* C17 witness: a Send call is parked with no receiver; a SetNow, a Reset made
\* between the call's first critical section and its parking, and a Stop were
\* called; nothing was taken from TimeCh.
C17_Witness ==
  /\ pc[1] = "parked"
  /\ \A j \in Calls : recvBy[j] = "none"
  /\ resetInFlight
  /\ everSetNow
  /\ callLog[Len(callLog)].op = "Stop"
  /\ IsSending

\* the ClockFake is idle: not scheduled and no Send call in progress
Idle == ~scheduled /\ ~sending /\ \A k \in Calls : ~InFlight(k)

\* C18 as stated: a Stop call on an idle ClockFake returns false and leaves
\* the call history, the current instant, both flags and the contents of
\* ResetCh and StopCh unchanged.
C18_IdleStopNoOp ==
  [][ (IsCall("Stop") /\ Idle) =>
        /\ stopRet' = FALSE
        /\ UNCHANGED <<resetArg, current, scheduled, sending, ResetCh, StopCh>>
    ]_vars

\* C18 amended: a Stop call on an idle ClockFake returns false and leaves the
\* current instant, both flags and ResetCh unchanged, but it appends a nil
\* entry to the call history and puts a signal on StopCh if StopCh is empty.
C18_IdleStopRecorded ==
  [][ (IsCall("Stop") /\ Idle) =>
        /\ stopRet' = FALSE
        /\ resetArg' = Append(resetArg, Nil)
        /\ StopCh' = IF StopCh = <<>> THEN <<"sig">> ELSE StopCh
        /\ UNCHANGED <<current, scheduled, sending, ResetCh>>
    ]_vars

\* C18 witness: Stop was the only call on a new ClockFake; it returned false,
\* the history holds one nil entry and StopCh holds one signal.
C18_Witness ==
  /\ lastOp = "Stop"
  /\ callLog = <<[op |-> "Stop", d |-> 0]>>
  /\ nCalls = 1
  /\ stopRet = FALSE
  /\ CloneResetArg = <<Nil>>
  /\ StopCh = <<"sig">>
  /\ Idle

\* C19: under fair scheduling with a consumer that keeps receiving from C(),
\* every Send call that began eventually returns: a call never leaves the
\* returned position, so this says that from some point on no Send call is in
\* progress.  Whenever all Send calls that began have returned, the sending
\* flag is false and the scheduled flag is true only if a Reset call was made
\* that no Stop call and no Send completion followed; the lock is free
\* whenever no critical section runs.
C19_SendsReturn ==
  /\ <>[](\A k \in Calls : ~InFlight(k))
  /\ []((\A k \in Calls : ~InFlight(k)) =>
          /\ ~IsSending
          /\ IsScheduled => sinceReset = "fresh")
  /\ [](mu = 0)

\* C19 witness: two overlapping Send calls, with a Reset and a Stop made while
\* they were in progress, both had their values received by the consumer and
\* both returned; the flags are false.
C19_Witness ==
  /\ pc[1] = "returned" /\ pc[2] = "returned"
  /\ recvBy[1] = "consumer" /\ recvBy[2] = "consumer"
  /\ nowAtBegin[2] = next[1] + Tick
  /\ atReset[1] = "other" /\ atReset[2] = "other"
  /\ callLog[Len(callLog)].op = "Stop"
  /\ ~IsSending /\ ~IsScheduled

\* every recorded Reset duration is non-negative and SetNow was never called
Forward ==
  /\ ~everSetNow
  /\ \A i \in 1..Len(callLog) : callLog[i].op = "Reset" => callLog[i].d >= 0

\* the Send calls whose values a consumer received, in the order of receipt
ConsumerLog == SelectSeq(recvLog, LAMBDA k : recvBy[k] = "consumer")

\* C20 as stated: with non-negative Reset durations and no SetNow, the values
\* received from C() are strictly increasing in the order of receipt, also
\* for Send calls that overlap.
C20_ReceivedIncreasing ==
  Forward =>
    \A i, j \in 1..Len(ConsumerLog) :
      i < j => got[ConsumerLog[i]] < got[ConsumerLog[j]]

\* C20 amended: with non-negative Reset durations and no SetNow, Now() never
\* decreases and the values of the Send calls are strictly increasing in the
\* order in which the calls passed their first critical section; two values
\* are received in increasing order exactly when they are received in that
\* order.
C20_IncreasingInBeginOrder ==
  /\ [](Forward =>
          /\ \A k, j \in Calls :
               (k < j /\ pc[j] # "notStarted") => next[k] < next[j]
          /\ \A k \in Calls : pc[k] # "notStarted" => next[k] < Now
          /\ \A i, j \in 1..Len(ConsumerLog) :
               i < j => (got[ConsumerLog[i]] < got[ConsumerLog[j]]
                           <=> ConsumerLog[i] < ConsumerLog[j]))
  /\ [][Forward' => Now' >= Now]_vars

\* C20 witness: two Send calls overlapped, the second parked first, and the
\* consumer received the later value before the earlier one.
C20_Witness ==
  /\ Forward
  /\ ConsumerLog = <<2, 1>>
  /\ got[2] > got[1]
  /\ Now > got[2]

====
